---------------------------- MODULE Spec2Model ----------------------------
(***************************************************************************)
(* Retrieval and ranking engine of the recipe assistant                    *)
(* (src/recipe_assistant/retrieval.py, src/recipe_assistant/rag.py).       *)
(*                                                                         *)
(* One request is followed from the call of an entry point to its return   *)
(* or its exception.  Texts are sequences of one-character strings, a      *)
(* Python dict is a record whose optional keys carry a presence flag, an   *)
(* Optional value is a sequence of length 0 (None) or 1, and Python's      *)
(* 0-based list positions are written 1-based.                             *)
(***************************************************************************)
EXTENDS Integers, Sequences, FiniteSets, TLC

(***************************************************************************)
(* Bounds of the model.                                                    *)
(***************************************************************************)
MaxHits == 3          \* longest hit list the document store returns
MaxResults == 2       \* largest num_results a direct caller passes
MaxTopK == 2          \* largest hybrid_top_k a direct caller passes
SmallPool == 1        \* the small candidate_pool_size a direct caller passes

(***************************************************************************)
(* Program constants.                                                      *)
(***************************************************************************)
DefaultNumResults == 5      \* rag.py: num_results=5
DefaultTopK == 5            \* retrieval.py: hybrid_top_k=5
CandidatePoolSize == 200    \* retrieval.py: candidate_pool_size=200
UnparsableTime == 99999     \* retrieval.py: total_time = 99999
TimeBudget == 60            \* a finite max_time of a request

None == <<>>
Some(x) == <<x>>

(***************************************************************************)
(* Generic list helpers (Python slicing and comprehension).                *)
(***************************************************************************)
Min(a, b) == IF a <= b THEN a ELSE b

Max(a, b) == IF a >= b THEN a ELSE b

\* s[:n]
Take(s, n) == SubSeq(s, 1, Min(n, Len(s)))

\* s[-k:]  (k >= 0; -0 is 0, so s[-0:] is the whole list)
LastK(s, k) == IF k = 0 THEN s ELSE SubSeq(s, Max(1, Len(s) - k + 1), Len(s))

\* s[::-1]
Reverse(s) == [i \in 1..Len(s) |-> s[Len(s) + 1 - i]]

Range(s) == {s[i] : i \in 1..Len(s)}

\* list.remove(x): drops the first element equal to x
RemoveFirst(s, x) ==
    LET i == CHOOSE j \in 1..Len(s) : s[j] = x /\ \A h \in 1..(j - 1) : s[h] # x
    IN  SubSeq(s, 1, i - 1) \o SubSeq(s, i + 1, Len(s))

(***************************************************************************)
(* Tokenizer: set(re.sub(r'[^\w\s]', '', text.lower())                     *)
(*                  .replace(',', ' ').split())                            *)
(***************************************************************************)
WordChars == {"s", "r", "g", "l", "b", "S", "R", "1", "_"}

SpaceChars == {" "}

LowerChar(c) == CASE c = "S" -> "s" [] c = "R" -> "r" [] OTHER -> c

\* text.swapcase() in place of text.lower()
SwapCase(text) ==
    [i \in 1..Len(text) |->
        CASE text[i] = "S" -> "s" [] text[i] = "R" -> "r"
          [] text[i] = "s" -> "S" [] text[i] = "r" -> "R"
          [] OTHER -> text[i]]

Lower(text) == [i \in 1..Len(text) |-> LowerChar(text[i])]

IsWordOrSpace(c) == c \in WordChars \/ c \in SpaceChars

\* re.sub(r'[^\w\s]', '', text)
StripPunct(text) == SelectSeq(text, IsWordOrSpace)

\* text.replace(',', ' ')
CommaToSpace(text) == [i \in 1..Len(text) |-> IF text[i] = "," THEN " " ELSE text[i]]

\* set(text.split()): the maximal runs of non-whitespace characters
SplitSet(text) ==
    {SubSeq(text, i, j) : <<i, j>> \in
        {p \in (1..Len(text)) \X (1..Len(text)) :
            /\ p[1] <= p[2]
            /\ \A h \in p[1]..p[2] : text[h] \notin SpaceChars
            /\ (p[1] = 1 \/ text[p[1] - 1] \in SpaceChars)
            /\ (p[2] = Len(text) \/ text[p[2] + 1] \in SpaceChars)}}

Tokenize(text) == SplitSet(CommaToSpace(StripPunct(Lower(text))))

(***************************************************************************)
(* Recipe documents.  A time field holds an integer, a numeric string, a   *)
(* string that is no number, None, or is absent from the dict.             *)
(***************************************************************************)
IntField(n) == [t |-> "int", n |-> n]

NumStrField(n) == [t |-> "numstr", n |-> n]

BadStrField == [t |-> "badstr", n |-> 0]

NoneField == [t |-> "none", n |-> 0]

AbsentField == [t |-> "absent", n |-> 0]

Doc(id, name, ingredients, prep, cook, vector) ==
    [id |-> id, recipe_name |-> name, all_ingredients |-> ingredients,
     prep_time_minutes |-> prep, cook_time_minutes |-> cook,
     all_ingredients_vector |-> vector]

\* The corpus of the document store: ids 0, 1, 2, ... as the ingestion assigns
\* them; "s, b" / "r, b" / "S, R, l" / "g" / "g r".
Corpus ==
    << Doc(Some(0), "A", <<"s", ",", " ", "b">>,
           IntField(10), IntField(20), Some(<<1, 0>>)),
       Doc(Some(1), "B", <<"r", ",", " ", "b">>,
           NumStrField(5), IntField(5), Some(<<0, 1>>)),
       Doc(Some(2), "C", <<"S", ",", " ", "R", ",", " ", "l">>,
           IntField(30), IntField(40), Some(<<1, 1>>)),
       Doc(Some(3), "D", <<"g">>,
           AbsentField, IntField(10), None),
       Doc(Some(4), "A", <<"g", " ", "r">>,
           BadStrField, IntField(5), Some(<<2, 0>>)) >>

\* Row 0 of a data file that was changed and loaded again into the same index:
\* the identifier of Corpus[1], another recipe
RowZeroChanged ==
    Doc(Some(0), "B", <<"r">>, IntField(5), IntField(5), Some(<<0, 1>>))

\* "s, r" / "S, r g!" / "" : the query texts of the requests
Queries ==
    { <<"s", ",", " ", "r">>,
      <<"S", ",", " ", "r", " ", "g", "!">>,
      << >> }

\* The embedding oracle's answers for a query
QueryEmbeddings == { <<1, 0>>, <<0, 1>> }

\* doc.get(key, 0) followed by int(...): Some(n), or None when int() raises
ParseInt(f) ==
    CASE f.t = "absent" -> Some(0)
      [] f.t = "int"    -> Some(f.n)
      [] f.t = "numstr" -> Some(f.n)
      [] OTHER          -> None

\* retrieval.py 34-37
TotalTime(doc) ==
    LET p == ParseInt(doc.prep_time_minutes)
        c == ParseInt(doc.cook_time_minutes)
    IN  IF p # None /\ c # None THEN p[1] + c[1] ELSE UnparsableTime

\* the comparison with max_time left out
AlwaysWithinTime(doc, max_time) == TRUE

WithinTime(doc, max_time) == TotalTime(doc) <= max_time[1]

\* retrieval.py 28-40
FilterByMaxTime(results, max_time) ==
    IF max_time = None THEN results
    ELSE LET keep(d) == WithinTime(d, max_time) IN SelectSeq(results, keep)

\* doc.get('id') or (recipe_name, prep_time_minutes, cook_time_minutes)
DedupKey(doc) ==
    IF doc.id # None /\ doc.id[1] # 0
    THEN <<"id", doc.id[1]>>
    ELSE <<"tuple", doc.recipe_name, doc.prep_time_minutes, doc.cook_time_minutes>>

\* retrieval.py 42-51
DeduplicateResults(results) ==
    LET first(i) == \A j \in 1..(i - 1) : DedupKey(results[j]) # DedupKey(results[i])
        idx == SelectSeq([i \in 1..Len(results) |-> i], first)
    IN  [k \in 1..Len(idx) |-> results[idx[k]]]

(***************************************************************************)
(* Greedy coverage: one scan of the remaining candidates                   *)
(* (retrieval.py 131-138).                                                 *)
(***************************************************************************)
\* the overlap counted without the intersection: len(ingredients)
OverlapWholeDoc(doc, uncovered) == Cardinality(Tokenize(doc.all_ingredients))

\* len(uncovered & ingredients)
Overlap(doc, uncovered) == Cardinality(uncovered \cap Tokenize(doc.all_ingredients))

RECURSIVE ScanBest(_, _, _, _)
\* best = <<position of best_doc (0: None), best_overlap>>
ScanBest(docs, uncovered, i, best) ==
    IF i > Len(docs) THEN best
    ELSE LET overlap == Overlap(docs[i], uncovered)
         IN  ScanBest(docs, uncovered, i + 1,
                      IF overlap > best[2] THEN <<i, overlap>> ELSE best)

RECURSIVE ScanBestLast(_, _, _, _)
ScanBestLast(docs, uncovered, i, best) ==
    IF i > Len(docs) THEN best
    ELSE LET overlap == Overlap(docs[i], uncovered)
         IN  ScanBestLast(docs, uncovered, i + 1,
                          IF overlap >= best[2] THEN <<i, overlap>> ELSE best)

\* the scan with "overlap >= best_overlap": the last of the best wins
BestDocLastWins(docs, uncovered) == ScanBestLast(docs, uncovered, 1, <<0, 0>>)

\* the scan stopped at the first document with a positive overlap
BestDocFirstFit(docs, uncovered) ==
    LET fits == {i \in 1..Len(docs) : Overlap(docs[i], uncovered) > 0}
    IN  IF fits = {} THEN <<0, 0>>
        ELSE LET i == CHOOSE i \in fits : \A j \in fits : i <= j
             IN  <<i, Overlap(docs[i], uncovered)>>

BestDoc(docs, uncovered) == ScanBest(docs, uncovered, 1, <<0, 0>>)

\* uncovered ^= ingredients: the tokens of the document that were not
\* uncovered come in
UncoverToggle(uncovered, doc) ==
    LET ingredients == Tokenize(doc.all_ingredients)
    IN  (uncovered \ ingredients) \cup (ingredients \ uncovered)

\* uncovered -= ingredients  (retrieval.py 141-142)
Uncover(uncovered, doc) == uncovered \ Tokenize(doc.all_ingredients)

\* the loop condition without the cap on len(selected)
LoopCondNoCap(uncovered, selected, num_results, docs) ==
    uncovered # {} /\ docs # << >>

\* while uncovered and len(selected) < num_results and docs  (retrieval.py 130)
LoopCond(uncovered, selected, num_results, docs) ==
    uncovered # {} /\ Len(selected) < num_results /\ docs # << >>

(***************************************************************************)
(* Hybrid rerank stage (retrieval.py 158-167).                             *)
(***************************************************************************)
RECURSIVE DotFrom(_, _, _)
DotFrom(a, b, i) == IF i > Len(a) THEN 0 ELSE a[i] * b[i] + DotFrom(a, b, i + 1)

\* np.dot(query_emb, emb)
Dot(a, b) == DotFrom(a, b, 1)

HasVector(doc) == doc.all_ingredients_vector # None

\* [np.array(doc[vector]) for doc in cover_results if vector in doc]
CoverEmbeddings(cover_results) ==
    LET with == SelectSeq(cover_results, HasVector)
    IN  [i \in 1..Len(with) |-> with[i].all_ingredients_vector[1]]

Similarities(query_emb, embeddings) ==
    [i \in 1..Len(embeddings) |-> Dot(query_emb, embeddings[i])]

\* np.argsort(similarities): a permutation that sorts ascending; the order of
\* equal scores is whatever the default (unstable) sort leaves
ArgSorts(sims) ==
    {p \in [1..Len(sims) -> 1..Len(sims)] :
        /\ \A i, j \in 1..Len(sims) : i # j => p[i] # p[j]
        /\ \A i \in 1..(Len(sims) - 1) : sims[p[i]] <= sims[p[i + 1]]}

\* argsort[-hybrid_top_k:][::-1]
TopIndices(order, hybrid_top_k) == Reverse(LastK(order, hybrid_top_k))

\* [cover_results[i] for i in top_indices]
PickByIndex(cover_results, top_indices) ==
    [i \in 1..Len(top_indices) |-> cover_results[top_indices[i]]]

\* doc.pop('all_ingredients_vector', None)
PopVector(doc) == [doc EXCEPT !.all_ingredients_vector = None]

PopVectors(results) == [i \in 1..Len(results) |-> PopVector(results[i])]

\* "if not cover_results" skipped: the stage always goes on to the embedding
NeverEmpty(cover_results) == FALSE

\* if not cover_results: return []  (retrieval.py 156)
IsEmptyList(cover_results) == cover_results = << >>

(***************************************************************************)
(* External rerank: the oracle's text is a sequence of lexical tokens:     *)
(* "[", "]", ",", a quoted string (written as its content: "A", "B", "Z"), *)
(* a number ("1") and a prose word ("x").                                  *)
(***************************************************************************)
JsonValues == {"A", "B", "C", "D", "Z", "1"}

\* re.search(r'\[.*\]', content, re.DOTALL): greedy, from the first "[" to
\* the last "]" behind it
RegexSearch(content) ==
    LET opens == {i \in 1..Len(content) : content[i] = "["}
        first == CHOOSE i \in opens : \A j \in opens : i <= j
        closes == {i \in 1..Len(content) : content[i] = "]" /\ i > first}
        last == CHOOSE i \in closes : \A j \in closes : j <= i
    IN  IF opens = {} THEN None
        ELSE IF closes = {} THEN None
        ELSE Some(SubSeq(content, first, last))

\* json.loads of a bracketed span: the list of a flat array, or None when it
\* raises JSONDecodeError
JsonLoads(span) ==
    LET inner == SubSeq(span, 2, Len(span) - 1)
        n == Len(inner)
        wellFormed ==
            \/ n = 0
            \/ /\ n % 2 = 1
               /\ \A i \in 1..n : IF i % 2 = 1 THEN inner[i] \in JsonValues
                                              ELSE inner[i] = ","
    IN  IF wellFormed THEN Some([i \in 1..((n + 1) \div 2) |-> inner[2 * i - 1]])
        ELSE None

NamedDocs(name, candidates) ==
    LET named(d) == d.recipe_name = name IN SelectSeq(candidates, named)

\* candidates in their own order, each once if named at all
RankedDocsByCandidate(ranked_names, candidates) ==
    LET named(d) == d.recipe_name \in Range(ranked_names)
    IN  SelectSeq(candidates, named)

RECURSIVE RankedDocs(_, _)
\* [doc for name in ranked_names for doc in candidates
\*      if doc['recipe_name'] == name]   (retrieval.py 198)
RankedDocs(ranked_names, candidates) ==
    IF ranked_names = << >> THEN << >>
    ELSE NamedDocs(Head(ranked_names), candidates)
           \o RankedDocs(Tail(ranked_names), candidates)

\* The oracle's answers: prose only, nothing, arrays (empty, in either order,
\* wrapped in prose, with an unknown name, with a repeated name, of a number),
\* and bracketed text that is no JSON.
OracleResponses ==
    { <<"x">>,
      << >>,
      <<"[", "]">>,
      <<"[", "A", ",", "B", "]">>,
      <<"[", "B", ",", "A", "]">>,
      <<"x", "[", "D", ",", "B", "]", "x">>,
      <<"[", "Z", ",", "B", "]">>,
      <<"[", "B", ",", "B", "]">>,
      <<"[", "1", "]">>,
      <<"[", "x", "]">>,
      <<"[", "1", "]", "x", "[", "A", "]">>,
      <<"[", "A", ",", "]">>,
      <<"]", "x", "[">> }

(***************************************************************************)
(* The document store: a search answers with a relevance-ordered list of   *)
(* distinct corpus entries, at most "size" of them.                        *)
(***************************************************************************)
RECURSIVE InjSeqsOfLen(_, _)
InjSeqsOfLen(S, k) ==
    IF k = 0 THEN {<< >>}
    ELSE {Append(p[1], p[2]) :
            p \in {q \in InjSeqsOfLen(S, k - 1) \X S : q[2] \notin Range(q[1])}}

\* hits of an index that holds a document twice, or two rows with one id
DuplicateHits ==
    { <<Corpus[2], Corpus[2]>>,
      <<Corpus[1], RowZeroChanged>> }

HitLists(size) ==
    LET idx == UNION {InjSeqsOfLen(1..Len(Corpus), k) : k \in 0..Min(MaxHits, size)}
    IN  {[i \in 1..Len(s) |-> Corpus[s[i]]] : s \in idx}
           \cup {h \in DuplicateHits : Len(h) <= Min(MaxHits, size)}

(***************************************************************************)
(* Strategy selection of rag() (rag.py 147-157).                           *)
(***************************************************************************)
Strategies == {"cover", "hybrid", "cover_hybrid", "best"}

Approaches == Strategies \cup {"bogus"}

\* an unknown approach falls back to the default strategy
RagDispatchDefault(approach) == IF approach \in Strategies THEN approach ELSE "cover"

RagDispatch(approach) == IF approach \in Strategies THEN approach ELSE "invalid"

\* where a retrieval function's result goes: rag() and es_best_rag_with_rerank()
\* build the prompt from it, a direct caller gets it back
AfterRetrieval(entry) ==
    IF entry \in {"rag", "es_best_rag_with_rerank"} THEN "build_prompt" ELSE "done"

\* entry_template.format(**doc) raises KeyError for a doc without a time key
Formattable(doc) ==
    doc.prep_time_minutes.t # "absent" /\ doc.cook_time_minutes.t # "absent"

VARIABLES
    pc,             \* the statement the request is at
    entry,          \* the function the caller called
    strategy,       \* the pipeline the request runs
    approach,       \* rag()'s approach argument
    query, num_results, max_time, hybrid_top_k, pool_size,
    cover_n,        \* num_results of the running es_cover_ingredients_search
    candidates, uncovered, selected, docs,
    rounds,         \* iterations of the greedy loop so far
    cover_results, query_emb, top_indices,
    rr_input,       \* rerank_with_llm's candidates argument
    rr_candidates,  \* the same after its time filter
    content,        \* the oracle's response text
    search_results, \* the list the last finished stage returned
    calls,          \* the external calls made, in order
    error,          \* the exception the request ended in
    usage,          \* response.usage of each generation call, in order
    token_stats,    \* llm()'s token_stats for the answer
    rel_token_stats,\* the same for the relevance evaluation
    answer_data,    \* the record the pipeline returns
    fn,             \* the helper function called on its own
    arg_text,       \* its text argument
    arg_results,    \* its document-list argument
    ret,            \* its return value
    threads,        \* the locals of each of the concurrent requests
    index_documents \* old_rag.py's module-level index.documents

vars == <<pc, entry, strategy, approach, query, num_results, max_time,
          hybrid_top_k, pool_size, cover_n, candidates, uncovered, selected,
          docs, rounds, cover_results, query_emb, top_indices, rr_input,
          rr_candidates, content, search_results, calls, error,
          usage, token_stats, rel_token_stats, answer_data,
          fn, arg_text, arg_results, ret, threads, index_documents>>

params == <<entry, strategy, approach, query, num_results, max_time,
            hybrid_top_k, pool_size, cover_n>>

coverLocals == <<candidates, uncovered, selected, docs, rounds>>

hybridLocals == <<cover_results, query_emb, top_indices>>

rerankLocals == <<rr_input, rr_candidates, content>>

accounting == <<usage, token_stats, rel_token_stats, answer_data>>

\* a helper function called on its own
helperCall == <<fn, arg_text, arg_results, ret>>

\* two requests served at the same time
concurrent == <<threads, index_documents>>

\* what a step of the single request's pipeline never touches
others == <<helperCall, concurrent>>

MaxTimes == {None, Some(TimeBudget), Some(UnparsableTime)}

\* no request has been made
Idle ==
    /\ pc = "idle"
    /\ entry = "" /\ strategy = "" /\ approach = ""
    /\ query = << >> /\ num_results = 0 /\ max_time = None
    /\ hybrid_top_k = 0 /\ pool_size = 0 /\ cover_n = 0
    /\ candidates = << >> /\ uncovered = {} /\ selected = << >> /\ docs = << >>
    /\ rounds = 0
    /\ cover_results = << >> /\ query_emb = None /\ top_indices = << >>
    /\ rr_input = << >> /\ rr_candidates = << >> /\ content = None
    /\ search_results = << >> /\ calls = << >> /\ error = ""
    /\ usage = << >> /\ token_stats = None /\ rel_token_stats = None
    /\ answer_data = None

\* no helper function is called on its own
NoHelperCall == fn = "" /\ arg_text = << >> /\ arg_results = << >> /\ ret = << >>

\* no concurrent requests are served
NoThreads == threads = << >> /\ index_documents = << >>

Init == Idle /\ NoHelperCall /\ NoThreads

\* the coverage stage capped by the request's num_results
CoverCapNumResults(s, n) == n

\* num_results of the coverage call: rag() passes its own num_results to
\* es_cover_ingredients_search (rag.py 151), es_cover_then_hybrid_search
\* passes candidate_pool_size (retrieval.py 155)
CoverCap(s, n) == IF s = "cover" THEN n ELSE CandidatePoolSize

StartPc(s) == IF s = "hybrid" THEN "es_hybrid_search" ELSE "es_basic_search"

Begin(e, s, a, q, n, mt, k, pool, cn, start) ==
    /\ pc = "idle"
    /\ entry' = e /\ strategy' = s /\ approach' = a /\ query' = q
    /\ num_results' = n /\ max_time' = mt /\ hybrid_top_k' = k
    /\ pool_size' = pool /\ cover_n' = cn
    /\ pc' = start
    /\ UNCHANGED <<others, accounting>>

\* rag(query, approach=a)  (rag.py 139-157)
CallRag(q, a) ==
    LET s == RagDispatch(a)
    IN  /\ Begin("rag", s, a, q, DefaultNumResults, None, DefaultTopK,
                 CandidatePoolSize, CoverCap(s, DefaultNumResults),
                 IF s = "invalid" THEN "error" ELSE StartPc(s))
        /\ error' = IF s = "invalid" THEN "ValueError" ELSE ""
        /\ UNCHANGED <<coverLocals, hybridLocals, rerankLocals, search_results, calls>>

\* es_best_rag_with_rerank(query, num_results=n, max_time=mt)  (rag.py 97-107)
CallBest(q, n, mt) ==
    /\ Begin("es_best_rag_with_rerank", "best", "", q, n, mt, DefaultTopK,
             CandidatePoolSize, CoverCap("best", n), "es_basic_search")
    /\ UNCHANGED <<coverLocals, hybridLocals, rerankLocals, search_results, calls, error>>

\* es_cover_then_hybrid_search(query, n, mt, k)  (retrieval.py 149-155)
CallCoverThenHybrid(q, n, mt, k) ==
    /\ Begin("es_cover_then_hybrid_search", "cover_hybrid", "", q, n, mt, k,
             CandidatePoolSize, CoverCap("cover_hybrid", n), "es_basic_search")
    /\ UNCHANGED <<coverLocals, hybridLocals, rerankLocals, search_results, calls, error>>

\* es_cover_ingredients_search(query, n, mt, pool)  (retrieval.py 116)
CallCover(q, n, mt, pool) ==
    /\ Begin("es_cover_ingredients_search", "cover", "", q, n, mt, DefaultTopK,
             pool, n, "es_basic_search")
    /\ UNCHANGED <<coverLocals, hybridLocals, rerankLocals, search_results, calls, error>>

\* es_hybrid_search(query, n, mt)  (retrieval.py 78)
CallHybrid(q, n, mt) ==
    /\ Begin("es_hybrid_search", "hybrid", "", q, n, mt, DefaultTopK,
             CandidatePoolSize, n, "es_hybrid_search")
    /\ UNCHANGED <<coverLocals, hybridLocals, rerankLocals, search_results, calls, error>>

\* rerank_with_llm(query, candidates, max_time=mt)  (retrieval.py 169)
CallRerank(q, cands, mt) ==
    /\ Begin("rerank_with_llm", "rerank", "", q, DefaultNumResults, mt,
             DefaultTopK, CandidatePoolSize, CandidatePoolSize, "rerank_with_llm")
    /\ rr_input' = cands
    /\ UNCHANGED <<coverLocals, hybridLocals, rr_candidates, content,
                   search_results, calls, error>>

(***************************************************************************)
(* es_cover_ingredients_search (retrieval.py 116-147).                     *)
(***************************************************************************)
\* es_basic_search(query, num_results=pool): at most 2 * pool hits, cut to pool
\* (retrieval.py 53-76); then the time filter and the loop's set-up (122-129)
EsBasicSearch ==
    /\ pc = "es_basic_search"
    /\ \E hits \in HitLists(2 * pool_size) :
          /\ candidates' = FilterByMaxTime(Take(hits, pool_size), max_time)
          /\ docs' = candidates'
    /\ uncovered' = Tokenize(query)
    /\ selected' = << >>
    /\ rounds' = 0
    /\ calls' = Append(calls, "es_search")
    /\ pc' = "cover_loop"
    /\ UNCHANGED <<others, accounting, params, hybridLocals, rerankLocals, search_results, error>>

\* one iteration of the while loop (retrieval.py 130-145)
CoverRound ==
    /\ pc = "cover_loop"
    /\ LoopCond(uncovered, selected, cover_n, docs)
    /\ rounds' = rounds + 1
    /\ LET best == BestDoc(docs, uncovered)
       IN  IF best[1] # 0 /\ best[2] > 0
           THEN /\ selected' = Append(selected, docs[best[1]])
                /\ uncovered' = Uncover(uncovered, docs[best[1]])
                /\ docs' = RemoveFirst(docs, docs[best[1]])
                /\ pc' = "cover_loop"
           ELSE /\ pc' = "cover_return"
                /\ UNCHANGED <<selected, uncovered, docs>>
    /\ UNCHANGED <<others, accounting, params, candidates, hybridLocals, rerankLocals,
                   search_results, calls, error>>

\* the loop condition is false
CoverExit ==
    /\ pc = "cover_loop"
    /\ ~LoopCond(uncovered, selected, cover_n, docs)
    /\ pc' = "cover_return"
    /\ UNCHANGED <<others, accounting, params, coverLocals, hybridLocals, rerankLocals,
                   search_results, calls, error>>

\* deduplicate and return (retrieval.py 146-147); the locals are gone
CoverReturn ==
    /\ pc = "cover_return"
    /\ LET deduped == DeduplicateResults(selected)
       IN  IF strategy = "cover"
           THEN /\ search_results' = deduped
                /\ pc' = AfterRetrieval(entry)
                /\ UNCHANGED cover_results
           ELSE /\ cover_results' = deduped
                /\ pc' = "cover_then_hybrid"
                /\ UNCHANGED search_results
    /\ candidates' = << >> /\ uncovered' = {} /\ selected' = << >>
    /\ docs' = << >> /\ rounds' = 0
    /\ UNCHANGED <<others, accounting, params, query_emb, top_indices, rerankLocals, calls, error>>

(***************************************************************************)
(* es_cover_then_hybrid_search after its coverage call                     *)
(* (retrieval.py 156-167).                                                 *)
(***************************************************************************)
\* the result goes to answer generation at once, the external rerank is left out
SkipRerank == AfterRetrieval(entry)

\* where the result of es_cover_then_hybrid_search goes
AfterCoverThenHybrid == IF strategy = "best" THEN "rerank_with_llm" ELSE AfterRetrieval(entry)

CoverThenHybrid ==
    /\ pc = "cover_then_hybrid"
    /\ IF IsEmptyList(cover_results)
       THEN /\ search_results' = << >>
            /\ UNCHANGED <<query_emb, top_indices, calls>>
       ELSE \E emb \in QueryEmbeddings :
            \E order \in ArgSorts(Similarities(emb, CoverEmbeddings(cover_results))) :
               /\ query_emb' = Some(emb)
               /\ calls' = Append(calls, "embedding")
               /\ top_indices' = TopIndices(order, hybrid_top_k)
               /\ search_results' =
                    Take(PopVectors(PickByIndex(cover_results, top_indices')),
                         num_results)
    /\ pc' = AfterCoverThenHybrid
    /\ rr_input' = IF strategy = "best" THEN search_results' ELSE rr_input
    /\ UNCHANGED <<others, accounting, params, coverLocals, cover_results, rr_candidates, content, error>>

(***************************************************************************)
(* es_hybrid_search (retrieval.py 78-114).                                 *)
(***************************************************************************)
EsHybridSearch ==
    /\ pc = "es_hybrid_search"
    /\ \E emb \in QueryEmbeddings : query_emb' = Some(emb)
    /\ \E hits \in HitLists(2 * num_results) :
          search_results' =
             Take(DeduplicateResults(FilterByMaxTime(hits, max_time)), num_results)
    /\ calls' = calls \o <<"embedding", "es_search">>
    /\ pc' = AfterRetrieval(entry)
    /\ UNCHANGED <<others, accounting, params, coverLocals, cover_results, top_indices, rerankLocals, error>>

(***************************************************************************)
(* Token accounting (rag.py 42-53, 86-95).                                 *)
(***************************************************************************)
\* response.usage of a generation call
Usages ==
    { [prompt_tokens |-> 1, completion_tokens |-> 1],
      [prompt_tokens |-> 2, completion_tokens |-> 1] }

\* llm()'s token_stats; the service reports total = prompt + completion
TokenStats(u) ==
    [prompt_tokens |-> u.prompt_tokens,
     completion_tokens |-> u.completion_tokens,
     total_tokens |-> u.prompt_tokens + u.completion_tokens]

\* calculate_openai_cost for gpt-4o-mini, in units of 10^-8 dollars:
\* (prompt_tokens * 0.00015 + completion_tokens * 0.0006) / 1000
CalculateOpenaiCost(tokens) ==
    tokens.prompt_tokens * 15 + tokens.completion_tokens * 60

\* rag.py 115-136
AnswerData(tokens, rel_tokens) ==
    [prompt_tokens |-> tokens.prompt_tokens,
     completion_tokens |-> tokens.completion_tokens,
     total_tokens |-> tokens.total_tokens,
     eval_prompt_tokens |-> rel_tokens.prompt_tokens,
     eval_completion_tokens |-> rel_tokens.completion_tokens,
     eval_total_tokens |-> rel_tokens.total_tokens,
     openai_cost |-> CalculateOpenaiCost(tokens) + CalculateOpenaiCost(rel_tokens)]

(***************************************************************************)
(* rerank_with_llm (retrieval.py 169-199).                                 *)
(***************************************************************************)
RerankWithLlm ==
    /\ pc = "rerank_with_llm"
    /\ rr_candidates' = FilterByMaxTime(rr_input, max_time)
    /\ calls' = Append(calls, "rerank_llm")
    /\ \E text \in OracleResponses :
          /\ content' = Some(text)
          /\ LET json_match == RegexSearch(text)
                 ranked_names == JsonLoads(json_match[1])
             IN  IF json_match = None
                 THEN /\ search_results' = rr_candidates'
                      /\ pc' = AfterRetrieval(entry)
                      /\ UNCHANGED error
                 ELSE IF ranked_names = None
                 THEN /\ pc' = "error"
                      /\ error' = "JSONDecodeError"
                      /\ UNCHANGED search_results
                 ELSE /\ search_results' = RankedDocs(ranked_names[1], rr_candidates')
                      /\ pc' = AfterRetrieval(entry)
                      /\ UNCHANGED error
    /\ \E u \in Usages : usage' = Append(usage, u)
    /\ UNCHANGED <<others, params, coverLocals, hybridLocals, rr_input,
                   token_stats, rel_token_stats, answer_data>>

(***************************************************************************)
(* Answer generation and evaluation (rag.py 111-136, 158-182).             *)
(***************************************************************************)
BuildPromptAndAnswer ==
    /\ pc = "build_prompt"
    /\ IF \A i \in 1..Len(search_results) : Formattable(search_results[i])
       THEN /\ calls' = Append(calls, "answer_llm")
            /\ \E u \in Usages :
                  /\ usage' = Append(usage, u)
                  /\ token_stats' = Some(TokenStats(u))
            /\ pc' = "evaluate_relevance"
            /\ UNCHANGED error
       ELSE /\ pc' = "error"
            /\ error' = "KeyError"
            /\ UNCHANGED <<calls, usage, token_stats>>
    /\ UNCHANGED <<others, params, coverLocals, hybridLocals, rerankLocals,
                   search_results, rel_token_stats, answer_data>>

EvaluateRelevance ==
    /\ pc = "evaluate_relevance"
    /\ calls' = Append(calls, "eval_llm")
    /\ \E u \in Usages :
          /\ usage' = Append(usage, u)
          /\ rel_token_stats' = Some(TokenStats(u))
          /\ answer_data' = Some(AnswerData(token_stats[1], TokenStats(u)))
    /\ pc' = "done"
    /\ UNCHANGED <<others, params, coverLocals, hybridLocals, rerankLocals,
                   search_results, error, token_stats>>

(***************************************************************************)
(* A failing external call: es_client.search (retrieval.py 72, 109),       *)
(* openai_client.embeddings.create (retrieval.py 22) and                   *)
(* client.chat.completions.create (retrieval.py 187, rag.py 44) raise, and *)
(* no caller up to rag() has a try around them.                            *)
(***************************************************************************)
\* <<the statement the request is at, the calls it makes up to the failing
\*   one, the exception>>
CallSites ==
    { <<"es_basic_search", <<"es_search">>, "SearchError">>,
      <<"es_hybrid_search", <<"embedding">>, "EmbeddingError">>,
      <<"es_hybrid_search", <<"embedding", "es_search">>, "SearchError">>,
      <<"cover_then_hybrid", <<"embedding">>, "EmbeddingError">>,
      <<"rerank_with_llm", <<"rerank_llm">>, "GenerationError">>,
      <<"build_prompt", <<"answer_llm">>, "GenerationError">>,
      <<"evaluate_relevance", <<"eval_llm">>, "GenerationError">> }

CallErrors == {site[3] : site \in CallSites}

\* the failure is caught and the stage goes on with an empty list
ContinueAfterFailure(stage) ==
    IF stage = "es_basic_search" THEN "cover_loop" ELSE "done"

\* the exception leaves every function on the stack
AfterFailure(stage) == "error"

\* the call is reached: the emptiness check (retrieval.py 156) and the
\* formatting of the prompt (rag.py 38) come before it
CallReached(stage) ==
    CASE stage = "cover_then_hybrid" -> ~IsEmptyList(cover_results)
      [] stage = "build_prompt" ->
            \A i \in 1..Len(search_results) : Formattable(search_results[i])
      [] OTHER -> TRUE

CallFails(site) ==
    /\ pc = site[1]
    /\ CallReached(site[1])
    /\ calls' = calls \o site[2]
    /\ error' = site[3]
    /\ pc' = AfterFailure(site[1])
    /\ UNCHANGED <<others, accounting, params, coverLocals, hybridLocals,
                   rerankLocals, search_results>>

Next ==
    \/ \E q \in Queries, a \in Approaches : CallRag(q, a)
    \/ \E q \in Queries, n \in 0..MaxResults, mt \in MaxTimes : CallBest(q, n, mt)
    \/ \E q \in Queries, n \in 0..MaxResults, mt \in MaxTimes, k \in 0..MaxTopK :
          CallCoverThenHybrid(q, n, mt, k)
    \/ \E q \in Queries, n \in 0..MaxResults, mt \in MaxTimes,
          pool \in {SmallPool, CandidatePoolSize} : CallCover(q, n, mt, pool)
    \/ \E q \in Queries, n \in 0..MaxResults, mt \in MaxTimes : CallHybrid(q, n, mt)
    \/ \E q \in Queries, cands \in HitLists(MaxHits), mt \in MaxTimes :
          CallRerank(q, cands, mt)
    \/ EsBasicSearch
    \/ CoverRound
    \/ CoverExit
    \/ CoverReturn
    \/ CoverThenHybrid
    \/ EsHybridSearch
    \/ RerankWithLlm
    \/ BuildPromptAndAnswer
    \/ EvaluateRelevance
    \/ \E site \in CallSites : CallFails(site)

Spec == Init /\ [][Next]_vars

(***************************************************************************)
(* The helper functions called on their own: the tokenising expression     *)
(* (retrieval.py 126, 134; old_rag.py 30, 47) and deduplicate_results      *)
(* (retrieval.py 42-51), each applied once to an argument drawn from a     *)
(* bounded set.                                                            *)
(***************************************************************************)
MaxTextLen == 4

MaxListLen == 3

\* the characters of the texts: a lower-case and an upper-case letter, the
\* comma, the space and one more punctuation mark
TextChars == {"s", "R", ",", " ", "!"}

Texts == UNION {[1..n -> TextChars] : n \in 0..MaxTextLen}

\* The documents a result list may hold after the ingestion has run more than
\* once: row 0 and row 1 of two runs (same id, other content), and documents
\* indexed without an id.
DedupPool ==
    { Corpus[1],
      RowZeroChanged,
      Corpus[2],
      Doc(Some(1), "C", <<"g">>, IntField(30), IntField(40), None),
      Doc(None, "A", <<"s">>, IntField(10), IntField(20), None),
      Doc(None, "A", <<"g">>, IntField(10), IntField(20), None),
      Doc(None, "C", <<"s">>, IntField(10), IntField(20), None) }

ResultLists == UNION {[1..n -> DedupPool] : n \in 0..MaxListLen}

HelperInit ==
    /\ Idle /\ NoThreads
    /\ ret = None
    /\ \/ fn = "tokenize" /\ arg_text \in Texts /\ arg_results = << >>
       \/ fn = "deduplicate_results" /\ arg_text = << >> /\ arg_results \in ResultLists

\* set(re.sub(r'[^\w\s]', '', text.lower()).replace(',', ' ').split())
ReturnTokens ==
    /\ fn = "tokenize" /\ ret = None
    /\ ret' = Some(Tokenize(arg_text))
    /\ UNCHANGED <<pc, params, coverLocals, hybridLocals, rerankLocals,
                   search_results, calls, error, accounting,
                   fn, arg_text, arg_results, concurrent>>

\* return deduplicate_results(results)
ReturnUnique ==
    /\ fn = "deduplicate_results" /\ ret = None
    /\ ret' = Some(DeduplicateResults(arg_results))
    /\ UNCHANGED <<pc, params, coverLocals, hybridLocals, rerankLocals,
                   search_results, calls, error, accounting,
                   fn, arg_text, arg_results, concurrent>>

HelperNext == ReturnTokens \/ ReturnUnique

HelperSpec == HelperInit /\ [][HelperNext]_vars

(***************************************************************************)
(* Two requests served at the same time.  Each runs                        *)
(* es_cover_then_hybrid_search (retrieval.py 116-167), or                  *)
(* es_cover_ingredients_search on its own (retrieval.py 116-147), or       *)
(* old_rag.py's cover_ingredients_search (25-59); a step is the search, one *)
(* round of the greedy loop, the return of the coverage, or the similarity *)
(* rerank.  The locals of a request are fields of its record; the corpus   *)
(* and old_rag.py's index.documents are what the requests have in common.  *)
(***************************************************************************)
Threads == {1, 2}

\* the responses of es_client.search to the requests
ThreadHits ==
    { <<Corpus[1], Corpus[2], Corpus[3]>>,
      <<Corpus[5], Corpus[4], Corpus[2]>> }

\* the responses to es_cover_ingredients_search called on its own: size is
\* 2 * candidate_pool_size = 400, so the whole corpus may come back
CoverHits == ThreadHits \cup {Corpus}

IdleThread ==
    [pc |-> "idle", fn |-> "", query |-> << >>, num_results |-> 0,
     max_time |-> None, hits |-> << >>, emb |-> None, docs_ref |-> << >>,
     uncovered |-> {}, selected |-> << >>, docs |-> << >>,
     cover_results |-> << >>, result |-> << >>]

\* docs = index.documents: the loop works on the index's own list
DocsIsIndexList(t) == <<"index">>

\* docs = index.documents.copy()  (old_rag.py 33): a list of the request's own
DocsCopy(t) == <<"local", t>>

\* the list the name docs refers to
DocsOf(t) ==
    IF threads[t].docs_ref = <<"index">> THEN index_documents ELSE threads[t].docs

RECURSIVE OldScanBestLastWins(_, _, _, _, _)
\* the scan with "overlap >= best_overlap": of several documents of the
\* highest overlap the last one is kept
OldScanBestLastWins(ds, uncov, mt, i, best) ==
    IF i > Len(ds) THEN best
    ELSE IF mt # None /\ ~WithinTime(ds[i], mt)
         THEN OldScanBestLastWins(ds, uncov, mt, i + 1, best)
         ELSE LET overlap == Overlap(ds[i], uncov)
              IN  OldScanBestLastWins(ds, uncov, mt, i + 1,
                              IF overlap >= best[2] THEN <<i, overlap>> ELSE best)

RECURSIVE OldScanBest(_, _, _, _, _)
\* the scan of old_rag.py 37-51: a document over the time limit is skipped
OldScanBest(ds, uncov, mt, i, best) ==
    IF i > Len(ds) THEN best
    ELSE IF mt # None /\ ~WithinTime(ds[i], mt)
         THEN OldScanBest(ds, uncov, mt, i + 1, best)
         ELSE LET overlap == Overlap(ds[i], uncov)
              IN  OldScanBest(ds, uncov, mt, i + 1,
                              IF overlap > best[2] THEN <<i, overlap>> ELSE best)

\* best_doc and best_overlap of the request's round
ThreadBest(t) ==
    IF threads[t].fn = "cover_ingredients_search"
    THEN OldScanBest(DocsOf(t), threads[t].uncovered, threads[t].max_time, 1, <<0, 0>>)
    ELSE BestDoc(DocsOf(t), threads[t].uncovered)

\* num_results of the request's greedy loop
ThreadCap(t) ==
    IF threads[t].fn = "es_cover_then_hybrid_search"
    THEN CandidatePoolSize ELSE threads[t].num_results

ConcInit ==
    /\ Idle /\ NoHelperCall
    /\ threads = [t \in Threads |-> IdleThread]
    /\ index_documents = Corpus

mainVars == <<pc, params, coverLocals, hybridLocals, rerankLocals,
              search_results, calls, error, accounting, helperCall>>

\* es_cover_then_hybrid_search(q, n, mt): the search and the loop's set-up
\* (retrieval.py 155, 122-129)
ThreadSearch(t, q, n, mt, hits) ==
    /\ threads[t].pc = "idle"
    /\ LET cands == FilterByMaxTime(Take(hits, CandidatePoolSize), mt)
       IN  threads' = [threads EXCEPT ![t] =
              [IdleThread EXCEPT !.pc = "cover_loop",
                                 !.fn = "es_cover_then_hybrid_search",
                                 !.query = q, !.num_results = n, !.max_time = mt,
                                 !.hits = hits, !.docs_ref = <<"local", t>>,
                                 !.uncovered = Tokenize(q), !.docs = cands]]
    /\ UNCHANGED <<mainVars, index_documents>>

\* es_cover_ingredients_search(q, n, mt) called on its own: the search and
\* the loop's set-up (retrieval.py 122-129)
ThreadCoverSearch(t, q, n, mt, hits) ==
    /\ threads[t].pc = "idle"
    /\ LET cands == FilterByMaxTime(Take(hits, CandidatePoolSize), mt)
       IN  threads' = [threads EXCEPT ![t] =
              [IdleThread EXCEPT !.pc = "cover_loop",
                                 !.fn = "es_cover_ingredients_search",
                                 !.query = q, !.num_results = n, !.max_time = mt,
                                 !.hits = hits, !.docs_ref = <<"local", t>>,
                                 !.uncovered = Tokenize(q), !.docs = cands]]
    /\ UNCHANGED <<mainVars, index_documents>>

\* cover_ingredients_search(q, index, n, mt): the set-up (old_rag.py 30-33)
ThreadOldStart(t, q, n, mt) ==
    /\ threads[t].pc = "idle"
    /\ threads' = [threads EXCEPT ![t] =
          [IdleThread EXCEPT !.pc = "cover_loop",
                             !.fn = "cover_ingredients_search",
                             !.query = q, !.num_results = n, !.max_time = mt,
                             !.docs_ref = DocsCopy(t),
                             !.uncovered = Tokenize(q),
                             !.docs = index_documents]]
    /\ UNCHANGED <<mainVars, index_documents>>

\* one iteration of the request's while loop (retrieval.py 130-145,
\* old_rag.py 34-58); docs.remove acts on the list docs refers to
ThreadRound(t) ==
    LET th == threads[t]
        ds == DocsOf(t)
        best == ThreadBest(t)
    IN  /\ th.pc = "cover_loop"
        /\ LoopCond(th.uncovered, th.selected, ThreadCap(t), ds)
        /\ IF best[1] # 0 /\ best[2] > 0
           THEN LET doc == ds[best[1]]
                    picked == [th EXCEPT
                                 !.selected = Append(th.selected, doc),
                                 !.uncovered = th.uncovered \ Tokenize(doc.all_ingredients)]
                IN  IF th.docs_ref = <<"index">>
                    THEN /\ index_documents' = RemoveFirst(ds, doc)
                         /\ threads' = [threads EXCEPT ![t] = picked]
                    ELSE /\ threads' = [threads EXCEPT ![t] =
                                           [picked EXCEPT !.docs = RemoveFirst(ds, doc)]]
                         /\ UNCHANGED index_documents
           ELSE /\ threads' = [threads EXCEPT ![t].pc = "cover_return"]
                /\ UNCHANGED index_documents
        /\ UNCHANGED mainVars

\* the request's loop condition is false
ThreadLeave(t) ==
    /\ threads[t].pc = "cover_loop"
    /\ ~LoopCond(threads[t].uncovered, threads[t].selected, ThreadCap(t), DocsOf(t))
    /\ threads' = [threads EXCEPT ![t].pc = "cover_return"]
    /\ UNCHANGED <<mainVars, index_documents>>

\* return selected (old_rag.py 59); return deduplicate_results(selected)
\* (retrieval.py 146-147)
ThreadReturn(t) ==
    /\ threads[t].pc = "cover_return"
    /\ threads' = [threads EXCEPT ![t] =
          IF threads[t].fn = "cover_ingredients_search"
          THEN [threads[t] EXCEPT !.pc = "done", !.result = threads[t].selected]
          ELSE IF threads[t].fn = "es_cover_ingredients_search"
          THEN [threads[t] EXCEPT
                  !.pc = "done",
                  !.result = DeduplicateResults(threads[t].selected)]
          ELSE [threads[t] EXCEPT
                  !.pc = "cover_then_hybrid",
                  !.cover_results = DeduplicateResults(threads[t].selected)]]
    /\ UNCHANGED <<mainVars, index_documents>>

\* the similarity rerank and the stripping of the vectors (retrieval.py 156-167)
ThreadHybrid(t) ==
    LET th == threads[t]
    IN  /\ th.pc = "cover_then_hybrid"
        /\ IF IsEmptyList(th.cover_results)
           THEN threads' = [threads EXCEPT ![t].pc = "done", ![t].result = << >>]
           ELSE \E emb \in QueryEmbeddings :
                \E order \in ArgSorts(Similarities(emb, CoverEmbeddings(th.cover_results))) :
                   threads' = [threads EXCEPT
                      ![t].pc = "done",
                      ![t].emb = Some(emb),
                      ![t].result =
                          Take(PopVectors(PickByIndex(th.cover_results,
                                                      TopIndices(order, DefaultTopK))),
                               th.num_results)]
        /\ UNCHANGED <<mainVars, index_documents>>

ConcNext ==
    \E t \in Threads :
        \/ \E q \in Queries, n \in 1..MaxResults, mt \in {None, Some(TimeBudget)},
              hits \in ThreadHits : ThreadSearch(t, q, n, mt, hits)
        \/ \E q \in Queries, n \in 1..MaxResults, mt \in {None, Some(TimeBudget)} :
              ThreadOldStart(t, q, n, mt)
        \/ \E q \in Queries, n \in 1..MaxResults, mt \in {None, Some(TimeBudget)},
              hits \in CoverHits : ThreadCoverSearch(t, q, n, mt, hits)
        \/ ThreadRound(t)
        \/ ThreadLeave(t)
        \/ ThreadReturn(t)
        \/ ThreadHybrid(t)

ConcSpec == ConcInit /\ [][ConcNext]_vars

(***************************************************************************)
(* Properties.                                                             *)
(***************************************************************************)
\* the value es_cover_then_hybrid_search returned
CthResult == IF strategy = "best" THEN rr_input ELSE search_results

\* es_cover_then_hybrid_search went past its emptiness check into the rerank
HybridStageRan == strategy \in {"cover_hybrid", "best"} /\ query_emb # None

\* rerank_with_llm has received the oracle's answer
RerankAnswered == content # None

\* the oracle's answer holds a bracketed span that json.loads accepts
Parseable(text) ==
    /\ RegexSearch(text) # None
    /\ JsonLoads(RegexSearch(text)[1]) # None

ParsedNames(text) == JsonLoads(RegexSearch(text)[1])[1]

\* C1: the greedy loop runs at most num_results rounds; at the loop head it
\* leaves at once when uncovered is empty, num_results documents are selected
\* or no candidate remains; otherwise it runs exactly one more round, which
\* either selects one document and removes it from the remaining candidates,
\* or finds that every remaining candidate has overlap 0 and leaves the loop.
C1_LoopTerminates ==
    [][ pc = "cover_loop" =>
          /\ rounds' <= cover_n
          /\ IF uncovered = {} \/ Len(selected) >= cover_n \/ docs = << >>
             THEN rounds' = rounds /\ pc' = "cover_return"
             ELSE /\ rounds' = rounds + 1
                  /\ \/ /\ pc' = "cover_loop"
                        /\ Len(selected') = Len(selected) + 1
                        /\ Len(docs') = Len(docs) - 1
                     \/ /\ pc' = "cover_return"
                        /\ selected' = selected
                        /\ \A i \in 1..Len(docs) : Overlap(docs[i], uncovered) = 0
      ]_vars

\* C1 witness: the loop was stopped by the cap after num_results = 2 rounds,
\* with tokens still uncovered and candidates still remaining.
C1_Witness ==
    /\ pc = "cover_return"
    /\ rounds = cover_n /\ rounds >= 2
    /\ uncovered # {} /\ docs # << >>

\* C2: the document a round selects has an overlap with the uncovered set at
\* least that of every remaining candidate, every candidate before it in the
\* remaining list has a strictly smaller overlap, and the remaining list keeps
\* its order (only the selected document leaves it).
C2_GreedyPickIsFirstBest ==
    [][ (pc = "cover_loop" /\ Len(selected') = Len(selected) + 1) =>
          \E i \in 1..Len(docs) :
             /\ selected' = Append(selected, docs[i])
             /\ \A j \in 1..Len(docs) :
                   Overlap(docs[j], uncovered) <= Overlap(docs[i], uncovered)
             /\ \A j \in 1..(i - 1) :
                   Overlap(docs[j], uncovered) < Overlap(docs[i], uncovered)
             /\ docs' = SubSeq(docs, 1, i - 1) \o SubSeq(docs, i + 1, Len(docs))
      ]_vars

\* C2 witness: after the first round a remaining candidate had the same overlap
\* with the query as the selected document, which stood before it in the pool.
C2_Witness ==
    /\ pc = "cover_loop" /\ Len(selected) = 1
    /\ \E i, j \in 1..Len(candidates) :
          /\ i < j
          /\ candidates[i] = selected[1]
          /\ candidates[j] \in Range(docs)
          /\ Overlap(candidates[j], Tokenize(query))
               = Overlap(selected[1], Tokenize(query))

\* C3: rag() with an approach outside cover, hybrid, cover_hybrid, best ends in
\* ValueError, with no result, no strategy run and no external call made.
C3_UnknownApproachRaises ==
    (entry = "rag" /\ approach \notin Strategies) =>
        /\ pc = "error" /\ error = "ValueError"
        /\ strategy \notin Strategies
        /\ calls = << >>
        /\ search_results = << >>

\* C3 witness: a request rag(query, approach="bogus") has ended in the error.
C3_Witness == entry = "rag" /\ approach = "bogus" /\ pc = "error"

\* C4: when the oracle's text has no bracketed span, or a bracketed span that
\* is not valid JSON, rerank_with_llm raises nothing and returns its (time
\* filtered) candidates in their input order.
C4_UnparseableFallsBack ==
    (RerankAnswered /\ ~Parseable(content[1])) =>
        /\ error # "JSONDecodeError"
        /\ search_results = rr_candidates

\* C5: with a parseable array of names, rerank_with_llm returns exactly the
\* candidates whose name is in the array, in the order of the array: names
\* without a candidate are ignored, candidates without a name are dropped.
C5_RerankFollowsOracle ==
    (RerankAnswered /\ Parseable(content[1])) =>
        LET names == ParsedNames(content[1])
            res == search_results
        IN  /\ error # "JSONDecodeError"
            /\ Range(res) = {d \in Range(rr_candidates) : d.recipe_name \in Range(names)}
            /\ \A i, j \in 1..Len(res) : i < j =>
                  \E p, q \in 1..Len(names) :
                     /\ p <= q
                     /\ names[p] = res[i].recipe_name
                     /\ names[q] = res[j].recipe_name

\* C5 witness: the oracle answered ["B", "A"] for candidates A, C, B: the
\* result is B then A and C is dropped.
C5_Witness ==
    /\ RerankAnswered /\ pc = "done"
    /\ content[1] = <<"[", "B", ",", "A", "]">>
    /\ Len(rr_candidates) = 3
    /\ rr_candidates[1].recipe_name = "A" /\ rr_candidates[2].recipe_name = "C"
    /\ [i \in 1..Len(search_results) |-> search_results[i].recipe_name] = <<"B", "A">>

\* C6: rerank_with_llm with no candidate left (none given, or none after its
\* time filter) returns the empty list without calling the oracle.
C6_EmptyRerankSkipsOracle ==
    (/\ strategy \in {"best", "rerank"}
     /\ pc \in {"build_prompt", "evaluate_relevance", "done", "error"}
     /\ rr_candidates = << >>) =>
        /\ "rerank_llm" \notin Range(calls)
        /\ error # "JSONDecodeError"
        /\ search_results = << >>

\* C7: when every coverage-selected candidate has an embedding (and
\* num_results does not cut the list: hybrid_top_k <= num_results), the
\* returned documents are the hybrid_top_k candidates of highest dot product
\* (all if fewer), in descending order of it.
C7_HybridTopK ==
    (/\ HybridStageRan
     /\ hybrid_top_k <= num_results
     /\ \A j \in 1..Len(cover_results) : HasVector(cover_results[j])) =>
        LET res == CthResult
            score(j) == Dot(query_emb[1], cover_results[j].all_ingredients_vector[1])
        IN  /\ Len(res) = Min(hybrid_top_k, Len(cover_results))
            /\ \E src \in [1..Len(res) -> 1..Len(cover_results)] :
                  /\ \A i \in 1..Len(res) : res[i] = PopVector(cover_results[src[i]])
                  /\ \A i, h \in 1..Len(res) : i < h =>
                        src[i] # src[h] /\ score(src[i]) >= score(src[h])
                  /\ \A j \in 1..Len(cover_results) :
                        (\A i \in 1..Len(res) : src[i] # j) =>
                           \A i \in 1..Len(res) : score(j) <= score(src[i])

\* C8: no candidate without a stored embedding is returned by the hybrid
\* rerank, and the i-th returned document is the candidate whose embedding
\* produced the i-th best similarity.
C8_SkipsMissingEmbeddings ==
    HybridStageRan =>
        LET res == CthResult
            scored == SelectSeq(cover_results, HasVector)
        IN  /\ \A i \in 1..Len(res) :
                  \E j \in 1..Len(cover_results) :
                     HasVector(cover_results[j]) /\ res[i] = PopVector(cover_results[j])
            /\ \A i \in 1..Len(res) : res[i] = PopVector(scored[top_indices[i]])

\* C9: when the coverage stage of es_cover_then_hybrid_search selects nothing,
\* the function returns the empty list and the embedding oracle is not called.
C9_EmptyCoverSkipsEmbedding ==
    (/\ strategy \in {"cover_hybrid", "best"}
     /\ pc \in {"rerank_with_llm", "build_prompt", "evaluate_relevance", "done", "error"}
     /\ cover_results = << >>) =>
        /\ "embedding" \notin Range(calls)
        /\ query_emb = None
        /\ CthResult = << >>

\* C9 witness: a cover_hybrid request whose search returned documents of which
\* the greedy loop selected none has returned.
C9_Witness ==
    /\ strategy = "cover_hybrid" /\ pc = "done"
    /\ cover_results = << >>
    /\ calls = <<"es_search">>
    /\ Tokenize(query) # {}

\* C10: under a finite max_time no document passes filter_by_max_time whose
\* prep-time or cook-time is missing or does not parse as an integer.
C10_UnparsableTimeExcluded ==
    LET parsed(f) == f.t \in {"int", "numstr"}
        timed(d) == parsed(d.prep_time_minutes) /\ parsed(d.cook_time_minutes)
    IN  max_time # None =>
           /\ \A i \in 1..Len(candidates) : timed(candidates[i])
           /\ \A i \in 1..Len(rr_candidates) : timed(rr_candidates[i])


\* the minutes a time field holds, when it holds a number
Minutes(field) == IF field.t \in {"int", "numstr"} THEN Some(field.n) ELSE None

\* the document's prep minutes plus cook minutes is a number within the budget
SumWithin(doc, budget) ==
    LET prep == Minutes(doc.prep_time_minutes)
        cook == Minutes(doc.cook_time_minutes)
    IN  prep # None /\ cook # None /\ prep[1] + cook[1] <= budget

\* C11: filter_by_max_time returns its input unchanged when max_time is None;
\* otherwise it returns, in input order, exactly the documents whose prep
\* minutes plus cook minutes is at most max_time, and nothing else.  Stated on
\* rerank_with_llm, which keeps the filter's input and its output.
C11_FilterKeepsExactlyWithinBudget ==
    RerankAnswered =>
        rr_candidates =
            IF max_time = None THEN rr_input
            ELSE SelectSeq(rr_input, LAMBDA d : SumWithin(d, max_time[1]))
\* the identity key of a document: its identifier when it has one, the tuple
\* (name, prep time, cook time) otherwise
IdentityKey(doc) ==
    IF doc.id # None
    THEN <<"id", doc.id[1]>>
    ELSE <<"tuple", doc.recipe_name, doc.prep_time_minutes, doc.cook_time_minutes>>

\* the first document of each identity key, in order of first appearance
FirstOfEachKey(results) ==
    LET repeats(i) == \E j \in 1..(i - 1) :
                          IdentityKey(results[j]) = IdentityKey(results[i])
        keep == {i \in 1..Len(results) : ~repeats(i)}
        nth(k) == CHOOSE i \in keep : Cardinality({j \in keep : j < i}) = k - 1
    IN  [k \in 1..Cardinality(keep) |-> results[nth(k)]]

\* C12: deduplicate_results keeps exactly the first document of each identity
\* key, in order of first appearance, the key being the identifier whenever
\* the document has one (0 included); of two documents with the same
\* identifier only the first survives.
C12_DedupKeepsFirstOfEachKey ==
    (fn = "deduplicate_results" /\ ret # None) =>
        /\ ret[1] = FirstOfEachKey(arg_results)
        /\ \A i, j \in 1..Len(ret[1]) :
              (i # j /\ ret[1][i].id # None) => ret[1][i].id # ret[1][j].id

MaxWordLen == 2

\* words of letters only
Words ==
    {w \in UNION {[1..n -> TextChars] : n \in 1..MaxWordLen} :
        \A i \in 1..Len(w) : w[i] \in WordChars}

\* C13: the tokenizer treats a comma as whitespace: for any two words a and b
\* the texts 'a,b', 'a b' and 'a, b' all tokenize to the two tokens {a, b}.
C13_CommaSeparatesTokens ==
    \A a \in Words, b \in Words, sep \in {<<",">>, <<" ">>, <<",", " ">>} :
        (fn = "tokenize" /\ ret # None /\ arg_text = a \o sep \o b) =>
            ret[1] = {Lower(a), Lower(b)}

\* the pipeline has handed the retrieved list on to answer generation
HandedToAnswer ==
    /\ entry \in {"rag", "es_best_rag_with_rerank"}
    /\ pc \in {"build_prompt", "evaluate_relevance", "done"}

\* C14: for every strategy, corpus and oracle response, the list handed on to
\* answer generation holds at most num_results documents.
C14_AtMostNumResults ==
    HandedToAnswer => Len(search_results) <= num_results

\* C15: for every strategy, no document of the list handed on to answer
\* generation still carries its embedding field (all_ingredients_vector).
C15_NoEmbeddingLeaves ==
    HandedToAnswer =>
        \A i \in 1..Len(search_results) : ~HasVector(search_results[i])

\* an external call of the request has failed
CallFailed == error \in CallErrors

\* C16: when a lexical-search, embedding or generation call fails, the request
\* ends in an error, for every strategy: it neither goes on nor returns a
\* list, the failed call is the last one it made, and a request that returns
\* (an empty list included) has had every call succeed.
C16_FailedCallEndsRequest ==
    /\ CallFailed => pc = "error"
    /\ pc \in {"done", "build_prompt", "evaluate_relevance"} => ~CallFailed

\* C16 witness: the answer generation of a best-strategy request failed after
\* its search and its rerank call had succeeded.
C16_Witness ==
    /\ strategy = "best" /\ pc = "error" /\ error = "GenerationError"
    /\ Len(calls) >= 3 /\ calls[Len(calls)] = "answer_llm"

\* no candidate of the pool shares a token with the query
NoSharedToken ==
    \A i \in 1..Len(candidates) :
        Tokenize(candidates[i].all_ingredients) \cap Tokenize(query) = {}

\* the list es_cover_ingredients_search returned
CoverResult == IF strategy = "cover" THEN search_results ELSE cover_results

\* C17: es_cover_ingredients_search returns an empty selection, and raises no
\* error, whenever the query has no tokens, the candidate pool is empty, or no
\* candidate shares a token with the query.
C17_NothingToCoverReturnsEmpty ==
    [][ ( /\ pc = "cover_return"
          /\ Tokenize(query) = {} \/ candidates = << >> \/ NoSharedToken )
        => /\ selected = << >>
           /\ CoverResult' = << >>
           /\ pc' # "error" /\ error' = ""
      ]_vars

\* C17 witness: the query has tokens and the pool has candidates, but none of
\* them shares a token with the query; the first round found overlap 0.
C17_Witness ==
    /\ pc = "cover_return"
    /\ Tokenize(query) # {} /\ candidates # << >> /\ NoSharedToken
    /\ rounds = 1

RECURSIVE TokensUsed(_)
\* the tokens of the generation calls in the list, as the service counted them
TokensUsed(us) ==
    IF us = << >> THEN 0
    ELSE Head(us).prompt_tokens + Head(us).completion_tokens + TokensUsed(Tail(us))

RECURSIVE CostIncurred(_)
\* the cost of the generation calls in the list
CostIncurred(us) ==
    IF us = << >> THEN 0
    ELSE CalculateOpenaiCost(Head(us)) + CostIncurred(Tail(us))

\* C18: for a request run with the best strategy, the token and cost figures
\* of the returned answer data account for every generation call made during
\* the request, the external rerank's call included.  Stated for the requests
\* whose rerank had candidates to order.
C18_FiguresCoverEveryCall ==
    (strategy = "best" /\ answer_data # None /\ rr_candidates # << >>) =>
        /\ answer_data[1].total_tokens + answer_data[1].eval_total_tokens
              = TokensUsed(usage)
        /\ answer_data[1].openai_cost = CostIncurred(usage)

\* the stage that may follow each stage of the best strategy
BestSuccessors(stage) ==
    CASE stage = "idle" -> {"es_basic_search"}
      [] stage = "es_basic_search" -> {"cover_loop"}
      [] stage = "cover_loop" -> {"cover_loop", "cover_return"}
      [] stage = "cover_return" -> {"cover_then_hybrid"}
      [] stage = "cover_then_hybrid" -> {"rerank_with_llm"}
      [] stage = "rerank_with_llm" -> {"build_prompt"}
      [] stage = "build_prompt" -> {"evaluate_relevance"}
      [] stage = "evaluate_relevance" -> {"done"}
      [] OTHER -> {}

\* the external calls of the best strategy, in the order of its stages
BestCalls == <<"es_search", "embedding", "rerank_llm", "answer_llm", "eval_llm">>

\* the calls made so far are calls of BestCalls, each at most once, in order
InBestOrder(cs) ==
    \E f \in [1..Len(cs) -> 1..Len(BestCalls)] :
        /\ \A i \in 1..Len(cs) : cs[i] = BestCalls[f[i]]
        /\ \A i \in 1..(Len(cs) - 1) : f[i] < f[i + 1]

\* C19: in every run of the best strategy the stages execute strictly in the
\* order lexical search, greedy coverage, embedding + similarity rerank,
\* external rerank, answer generation, relevance evaluation (a run may end in
\* an error at any of them); and each stage's input is exactly the output of
\* the stage before it: the similarity rerank receives what the coverage
\* returned, the external rerank what the similarity rerank returned, and
\* that list is not changed until the external rerank has ordered it.
C19_BestStagesInOrder ==
    [][ (strategy' = "best" /\ pc' # pc) =>
          /\ pc' \in BestSuccessors(pc) \cup {"error"}
          /\ InBestOrder(calls')
          /\ pc = "es_basic_search" /\ pc' # "error" => docs' = candidates'
          /\ pc = "cover_return" => cover_results' = DeduplicateResults(selected)
          /\ pc = "cover_then_hybrid" /\ pc' # "error" => rr_input' = search_results'
          /\ pc = "rerank_with_llm" =>
                /\ rr_input' = rr_input
                /\ pc' # "error" => rr_candidates' = FilterByMaxTime(rr_input, max_time)
          /\ pc \in {"build_prompt", "evaluate_relevance"} =>
                search_results' = search_results
      ]_vars

\* C19 witness: a best-strategy request went through all six stages, the
\* embedding stage included, and returned.
C19_Witness ==
    /\ strategy = "best" /\ pc = "done"
    /\ calls = BestCalls
    /\ Len(search_results) >= 2

RECURSIVE GreedyAlone(_, _, _, _, _, _)
\* the selection the greedy loop makes when nothing else runs: old tells the
\* scan of old_rag.py (time limit inside the scan) from that of retrieval.py
GreedyAlone(old, uncov, sel, ds, cap, mt) ==
    IF ~LoopCond(uncov, sel, cap, ds) THEN sel
    ELSE LET best == IF old THEN OldScanBest(ds, uncov, mt, 1, <<0, 0>>)
                     ELSE BestDoc(ds, uncov)
         IN  IF best[1] # 0 /\ best[2] > 0
             THEN GreedyAlone(old,
                              uncov \ Tokenize(ds[best[1]].all_ingredients),
                              Append(sel, ds[best[1]]),
                              RemoveFirst(ds, ds[best[1]]), cap, mt)
             ELSE sel

\* the results the request of record th may return when it runs alone against
\* the corpus (more than one where the similarity scores tie)
AloneResults(th) ==
    IF th.fn = "cover_ingredients_search"
    THEN {GreedyAlone(TRUE, Tokenize(th.query), << >>, Corpus,
                      th.num_results, th.max_time)}
    ELSE IF th.fn = "es_cover_ingredients_search"
    THEN {DeduplicateResults(
              GreedyAlone(FALSE, Tokenize(th.query), << >>,
                          FilterByMaxTime(Take(th.hits, CandidatePoolSize), th.max_time),
                          th.num_results, None))}
    ELSE LET cands == FilterByMaxTime(Take(th.hits, CandidatePoolSize), th.max_time)
             cover == DeduplicateResults(
                          GreedyAlone(FALSE, Tokenize(th.query), << >>, cands,
                                      CandidatePoolSize, None))
         IN  IF cover = << >> THEN {<< >>}
             ELSE {Take(PopVectors(PickByIndex(cover, TopIndices(order, DefaultTopK))),
                        th.num_results) :
                     order \in UNION {ArgSorts(Similarities(emb, CoverEmbeddings(cover))) :
                                         emb \in QueryEmbeddings}}

\* C20: two requests running at the same time against the same read-only
\* corpus, under any interleaving of their steps, each return a result they
\* would return when run alone; the corpus and the index's document list are
\* left as they were, and the documents a request returns are stripped of
\* their vectors whatever the other request does.
C20_RequestsDoNotInterfere ==
    threads # << >> =>
        /\ index_documents = Corpus
        /\ \A t \in Threads :
              threads[t].pc = "done" =>
                 /\ threads[t].result \in AloneResults(threads[t])
                 /\ threads[t].fn = "es_cover_then_hybrid_search" =>
                       \A i \in 1..Len(threads[t].result) :
                           ~HasVector(threads[t].result[i])

\* C20 witness: both requests have returned two documents, request 1 from
\* old_rag.py's loop over the index and request 2 from retrieval.py's loop
\* and rerank, for different queries.
C20_Witness ==
    /\ threads # << >>
    /\ threads[1].pc = "done" /\ threads[2].pc = "done"
    /\ threads[1].fn = "cover_ingredients_search"
    /\ threads[2].fn = "es_cover_then_hybrid_search"
    /\ Len(threads[1].result) >= 2 /\ Len(threads[2].result) >= 2
    /\ threads[1].query # threads[2].query

\* the orders in which the tokens of a set can be written down
Orderings(tokens) ==
    {f \in [1..Cardinality(tokens) -> tokens] :
        \A i, j \in 1..Cardinality(tokens) : i # j => f[i] # f[j]}

RECURSIVE JoinWithSpaces(_)
\* the tokens of the list joined by single spaces
JoinWithSpaces(words) ==
    IF words = << >> THEN << >>
    ELSE IF Len(words) = 1 THEN words[1]
    ELSE words[1] \o <<" ">> \o JoinWithSpaces(Tail(words))

\* the text is made of letters, digits, commas and whitespace only
PlainText(text) ==
    \A i \in 1..Len(text) : text[i] \in (WordChars \ {"_"}) \cup {",", " "}

\* C21: tokenization is idempotent: for a text of letters, digits, commas and
\* whitespace, the tokens of the text joined by single spaces (in any order)
\* tokenize to exactly the token set of the text.
C21_TokenizeIdempotent ==
    (fn = "tokenize" /\ ret # None /\ PlainText(arg_text)) =>
        \A order \in Orderings(ret[1]) :
            Tokenize(JoinWithSpaces(order)) = ret[1]

\* C21 witness: a text with an upper-case letter and a comma followed by a
\* space was tokenized to two tokens.
C21_Witness ==
    /\ fn = "tokenize" /\ ret # None /\ PlainText(arg_text)
    /\ Cardinality(ret[1]) = 2
    /\ \E i \in 1..Len(arg_text) : arg_text[i] = "R"
    /\ \E i \in 1..(Len(arg_text) - 1) : arg_text[i] = "," /\ arg_text[i + 1] = " "

\* the coverage example: the query "s, r" (shrimp, rice) and the pool of
\* document 1 with s and one other ingredient, document 2 with r and one
\* other ingredient, document 3 with s, r and one other ingredient, in that
\* order, with num_results = 5
CoverageExample ==
    /\ strategy = "cover" /\ cover_n = DefaultNumResults
    /\ query = <<"s", ",", " ", "r">>
    /\ candidates = <<Corpus[1], Corpus[2], Corpus[3]>>

\* C22: in the coverage example the greedy selection picks document 3 first,
\* with overlap 2, then stops because uncovered is empty, and returns exactly
\* [document 3].
C22_CoverageExample ==
    [][ CoverageExample =>
          /\ (pc = "cover_loop" /\ rounds = 0) =>
                /\ BestDoc(docs, uncovered)[2] = 2
                /\ selected' = <<Corpus[3]>> /\ uncovered' = {}
                /\ pc' = "cover_loop"
          /\ (pc = "cover_loop" /\ rounds = 1) =>
                /\ rounds' = 1 /\ selected' = selected /\ pc' = "cover_return"
          /\ pc = "cover_return" => search_results' = <<Corpus[3]>>
      ]_vars

\* C22 witness: the example's run is about to return its selection.
C22_Witness ==
    CoverageExample /\ pc = "cover_return" /\ selected = <<Corpus[3]>>

\* C23: es_hybrid_search returns at most num_results documents, in the order
\* of the search response, no two of which share an identity key, and when
\* max_time is given none of which has prep plus cook minutes above max_time.
C23_HybridResultIsClean ==
    (strategy = "hybrid" /\ pc \in {"build_prompt", "evaluate_relevance", "done"}) =>
        /\ Len(search_results) <= num_results
        /\ \A i, j \in 1..Len(search_results) :
              i # j => IdentityKey(search_results[i]) # IdentityKey(search_results[j])
        /\ max_time # None =>
              \A i \in 1..Len(search_results) :
                  LET prep == Minutes(search_results[i].prep_time_minutes)
                      cook == Minutes(search_results[i].cook_time_minutes)
                  IN  (prep # None /\ cook # None) => prep[1] + cook[1] <= max_time[1]

\* C24: across the greedy loop the set of covered query tokens never shrinks:
\* after every round uncovered is a subset of what it was before the round,
\* and it changes only by losing the tokens of the document selected in that
\* round.
C24_UncoveredOnlyShrinks ==
    [][ pc = "cover_loop" =>
          /\ uncovered' \subseteq uncovered
          /\ uncovered \subseteq Tokenize(query)
          /\ \/ uncovered' = uncovered /\ selected' = selected
             \/ /\ Len(selected') = Len(selected) + 1
                /\ SubSeq(selected', 1, Len(selected)) = selected
                /\ uncovered' = uncovered \
                      Tokenize(selected'[Len(selected')].all_ingredients)
      ]_vars

\* C24 witness: two rounds have each selected a document and each taken
\* tokens out of uncovered, and a token is still uncovered.
C24_Witness ==
    /\ pc = "cover_loop" /\ rounds = 2 /\ Len(selected) = 2
    /\ uncovered # {} /\ Cardinality(uncovered) < Cardinality(Tokenize(query)) - 1

\* the document's prep plus cook minutes exceed the budget
ExceedsTime(doc, budget) ==
    LET prep == Minutes(doc.prep_time_minutes)
        cook == Minutes(doc.cook_time_minutes)
    IN  prep # None /\ cook # None /\ prep[1] + cook[1] > budget

\* C25: when max_time is given, no document whose prep plus cook minutes
\* exceed max_time is ever appended to selected by the coverage loop, whatever
\* its overlap with the query: neither by retrieval.py's loop over the
\* pre-filtered candidates nor by old_rag.py's loop with the check in the scan.
C25_OverTimeNeverSelected ==
    threads # << >> =>
        \A t \in Threads :
            threads[t].max_time # None =>
                \A i \in 1..Len(threads[t].selected) :
                    ~ExceedsTime(threads[t].selected[i], threads[t].max_time[1])

\* C25 witness: with max_time given, both loops have finished a selection for
\* the query "s, r" while Corpus[3], which holds both tokens and takes 70
\* minutes, was in the search response and in the index.
C25_Witness ==
    /\ threads # << >>
    /\ threads[1].fn = "cover_ingredients_search"
    /\ threads[2].fn = "es_cover_then_hybrid_search"
    /\ \A t \in Threads :
          /\ threads[t].pc = "cover_return"
          /\ threads[t].max_time # None
          /\ threads[t].query = <<"s", ",", " ", "r">>
          /\ Len(threads[t].selected) = 2
    /\ \E i \in 1..Len(threads[2].hits) : threads[2].hits[i] = Corpus[3]
    /\ ExceedsTime(Corpus[3], TimeBudget)

\* the scores the similarity stage computed
Scores == Similarities(query_emb[1], CoverEmbeddings(cover_results))

Occurrences(doc, list) == Cardinality({i \in 1..Len(list) : list[i] = doc})

\* C27: the list rerank_with_llm returns holds each input candidate at most
\* as often as the input does and is never longer than the input, for every
\* oracle response, one that repeats a name included, and for inputs in which
\* two candidates have the same recipe_name.
C27_RerankResultIsAPool ==
    (RerankAnswered /\ pc # "error") =>
        /\ Len(search_results) <= Len(rr_candidates)
        /\ \A i \in 1..Len(search_results) :
              Occurrences(search_results[i], search_results)
                 <= Occurrences(search_results[i], rr_candidates)

\* the query tokens the first k documents of the list cover
CoveredBy(list, k) == UNION {Tokenize(list[j].all_ingredients) : j \in 1..k}

\* the candidate pool the request's loop started from
ThreadPool(th) ==
    IF th.fn = "cover_ingredients_search" THEN Corpus
    ELSE FilterByMaxTime(Take(th.hits, CandidatePoolSize), th.max_time)

\* C28: every document the greedy loop appends to selected covers at least
\* one query token that was still uncovered when it was picked, and no
\* document is picked twice; so selected never holds more documents than
\* min(num_results, number of distinct query tokens, size of the pool).
\* Stated for both loops (retrieval.py and old_rag.py), with num_results the
\* argument of the loop's function.
C28_EveryPickCoversSomething ==
    threads # << >> =>
        \A t \in Threads :
            LET th == threads[t]
                cap == IF th.fn = "es_cover_then_hybrid_search"
                       THEN CandidatePoolSize ELSE th.num_results
            IN  th.pc # "idle" =>
                  /\ \A i \in 1..Len(th.selected) :
                        (Tokenize(th.selected[i].all_ingredients)
                            \cap (Tokenize(th.query) \ CoveredBy(th.selected, i - 1))) # {}
                  /\ \A i, j \in 1..Len(th.selected) :
                        i # j => th.selected[i] # th.selected[j]
                  /\ Len(th.selected) <= cap
                  /\ Len(th.selected) <= Cardinality(Tokenize(th.query))
                  /\ Len(th.selected) <= Len(ThreadPool(th))

\* C28 witness: old_rag.py's loop was stopped by num_results = 2 with a token
\* of a three-token query still uncovered, while retrieval.py's loop picked
\* as many documents as its query has tokens.
C28_Witness ==
    /\ threads # << >>
    /\ threads[1].fn = "cover_ingredients_search" /\ threads[1].pc = "cover_return"
    /\ threads[1].num_results = 2 /\ Len(threads[1].selected) = 2
    /\ threads[1].uncovered # {}
    /\ threads[2].fn = "es_cover_then_hybrid_search" /\ threads[2].pc = "cover_return"
    /\ Len(threads[2].selected) = 2
    /\ Cardinality(Tokenize(threads[2].query)) = 2

\* C29: es_cover_then_hybrid_search returns at most hybrid_top_k documents,
\* for every hybrid_top_k >= 0; with hybrid_top_k = 0 it returns none.
C29_AtMostTopK ==
    HybridStageRan => Len(CthResult) <= hybrid_top_k

\* request a runs old_rag.py's loop and request b retrieval.py's, on the same
\* query, num_results and max_time, and the search handed b the documents of
\* the index in the index's order (no two of them share an identity key)
SameTask(a, b) ==
    /\ threads[a].fn = "cover_ingredients_search"
    /\ threads[b].fn = "es_cover_ingredients_search"
    /\ threads[a].query = threads[b].query
    /\ threads[a].num_results = threads[b].num_results
    /\ threads[a].max_time = threads[b].max_time
    /\ threads[b].hits = Corpus
    /\ \A i, j \in 1..Len(Corpus) :
          i # j => IdentityKey(Corpus[i]) # IdentityKey(Corpus[j])

\* the request has left its while loop
LoopLeft(t) == threads[t].pc \in {"cover_return", "done"}

\* C30: old_rag.cover_ingredients_search and the greedy loop of
\* retrieval.es_cover_ingredients_search, given the same query, num_results,
\* max_time and the same ordered pool without shared identity keys, pick the
\* same documents in the same order and leave the same uncovered set after
\* every round: after equally many picks selected and uncovered agree, the
\* picks of the one behind are a prefix of the other's, and when both loops
\* have ended the two selections and uncovered sets are equal.
C30_SameSelection ==
    threads # << >> =>
        \A a, b \in Threads :
            SameTask(a, b) =>
                LET x == threads[a]
                    y == threads[b]
                    k == Min(Len(x.selected), Len(y.selected))
                IN  /\ Take(x.selected, k) = Take(y.selected, k)
                    /\ Len(x.selected) = Len(y.selected) => x.uncovered = y.uncovered
                    /\ (LoopLeft(a) /\ LoopLeft(b)) =>
                          x.selected = y.selected /\ x.uncovered = y.uncovered

\* C30 witness: both loops have ended on the query "s, r" with max_time given
\* and num_results = 2, each with two documents picked, over a pool that holds
\* a document over the time limit with both tokens.
C30_Witness ==
    /\ threads # << >>
    /\ SameTask(1, 2)
    /\ LoopLeft(1) /\ LoopLeft(2)
    /\ threads[1].max_time = Some(TimeBudget)
    /\ threads[1].num_results = 2
    /\ Len(threads[1].selected) = 2 /\ Len(threads[2].selected) = 2
    /\ ExceedsTime(Corpus[3], TimeBudget)
    /\ Overlap(Corpus[3], Tokenize(threads[1].query)) = 2

====
